---- MODULE Spec2Model ----
(***************************************************************************)
(* Model of the keystroke-sender native messaging host                     *)
(* (src/src/keystroke_sender/host.py): the frame codec, the main loop with *)
(* its rate limiter and dispatcher, and the idle watchdog thread.          *)
(*                                                                         *)
(* Time is the monotonic clock counted in ticks, TicksPerSecond ticks to a *)
(* second.  stdin is the pipe from the peer, held as a sequence of tokens: *)
(* a 4-byte word carrying an unsigned integer, a run of bytes carrying a   *)
(* JSON text (or bytes that do not decode), or the 1-3 bytes of a cut-off  *)
(* word.  Every token remembers which frame of the peer it belongs to and  *)
(* whether the peer sent it as part of a payload.                          *)
(***************************************************************************)
EXTENDS Integers, Sequences, FiniteSets, TLC

\* ---- program constants (host.py:33-37, 51, 137)
MAX_MESSAGE_BYTES == 1048576
MAX_TEXT_LENGTH == 10000
IDLE_TIMEOUT_SECONDS == 300
RATE_LIMIT_WINDOW == 1
RATE_LIMIT_MAX == 20
WATCHDOG_POLL_SECONDS == 10
PREFIX_BYTES == 4
DEFAULT_DELAY_MS == 50

\* ---- bounds of the model
TicksPerSecond == 3
MaxFrames == 2
MaxLoopFrames == 2
MaxExtraTicks == 1
MaxCharSteps == 2
MaxCalls == 22
MaxRateTicks == 4
MaxBurstFrames == 22
MaxBurstPauses == 1
MaxBurstOversized == 1
MaxCodecFrames == 2
LongTextLen == 300

IdleTicks == IDLE_TIMEOUT_SECONDS * TicksPerSecond
WindowTicks == RATE_LIMIT_WINDOW * TicksPerSecond
PollTicks == WATCHDOG_POLL_SECONDS * TicksPerSecond
\* The instants at which the model looks at the clock: the first ticks after
\* the start, and the ticks around the idle deadline of a process started at 0.
Instants ==
    (0 .. MaxExtraTicks) \cup { IdleTicks - 1 + k : k \in 0 .. (MaxExtraTicks + 1) }

Min(a, b) == IF a <= b THEN a ELSE b

VARIABLES
    now,                \* time.monotonic(), in ticks
    stdin,              \* bytes the peer wrote and the host has not read yet
    eof,                \* the peer closed its end of the pipe
    sent,               \* number of frames the peer has sent
    pc,                 \* where the main thread is
    message,            \* main(): message
    count,              \* type_text(): count
    last_activity,      \* main(): last_activity[0]
    action_timestamps,  \* main(): action_timestamps
    wd_pc,              \* where the watchdog thread is
    wd_remaining,       \* watchdog(): remaining
    wd_wake,            \* end of the watchdog's current sleep
    exit,               \* "running", or how the process ended
    nResp,              \* number of frames written to stdout
    lastResp,           \* the last frame written to stdout
    cur,                \* bookkeeping on the current loop iteration
    admitted,           \* every timestamp the rate limiter ever appended
    rl,                 \* bookkeeping on the last _check_rate_limit call
    stdout,             \* bytes send_message wrote and the peer has not read yet
    codec               \* the peer's reading of stdout, and what was written

vars == <<now, stdin, eof, sent, pc, message, count, last_activity,
          action_timestamps, wd_pc, wd_remaining, wd_wake, exit, nResp,
          lastResp, cur, admitted, rl, stdout, codec>>

\* ------------------------------------------------------------------------
\* Requests.  A decoded payload is a record; json = "bad" stands for bytes
\* that json.loads rejects, json = "other" for valid JSON that is no object.
\* ------------------------------------------------------------------------
Absent == [kind |-> "absent", val |-> 0]
IntVal(v) == [kind |-> "int", val |-> v]
NumStr(v) == [kind |-> "numstr", val |-> v]
BadNum == [kind |-> "bad", val |-> 0]

Msg(json, action, text, textLen, delay, x, y) ==
    [json |-> json, action |-> action, text |-> text, textLen |-> textLen,
     delay |-> delay, x |-> x, y |-> y]

NoMessage == Msg("none", "absent", "absent", 0, "absent", Absent, Absent)
BadJson == Msg("bad", "absent", "absent", 0, "absent", Absent, Absent)
NotObject == Msg("other", "absent", "absent", 0, "absent", Absent, Absent)
TypeMsg(action, len, delay) == Msg("object", action, "str", len, delay, Absent, Absent)
ClickMsg(x, y) == Msg("object", "click", "absent", 0, "absent", x, y)

\* The requests of the full system's runs.
CoreRequests ==
    { TypeMsg("type", MAX_TEXT_LENGTH, "absent"),
      TypeMsg("absent", 1, "neg"),
      ClickMsg(IntVal(500), IntVal(300)),
      Msg("object", "absent", "absent", 0, "absent", Absent, Absent),
      NotObject,
      BadJson }

\* The requests of the dispatcher's runs.
Requests ==
    { TypeMsg("type", 2, "absent"),
      TypeMsg("absent", 1, "neg"),
      TypeMsg("type", 1, "nonnum"),
      TypeMsg("type", 0, "absent"),
      TypeMsg("type", MAX_TEXT_LENGTH, "zero"),
      TypeMsg("type", MAX_TEXT_LENGTH + 1, "pos"),
      Msg("object", "type", "nonstr", 0, "absent", Absent, Absent),
      Msg("object", "type", "absent", 0, "absent", Absent, Absent),
      Msg("object", "absent", "absent", 0, "absent", Absent, Absent),
      Msg("object", "other", "str", 1, "absent", Absent, Absent),
      ClickMsg(IntVal(500), IntVal(300)),
      ClickMsg(NumStr(7), IntVal(300)),
      ClickMsg(BadNum, IntVal(300)),
      ClickMsg(IntVal(500), Absent),
      Msg("object", "click", "str", 1, "absent", IntVal(500), IntVal(300)),
      NotObject,
      BadJson }

\* Byte length of the payload carrying m: what the peer puts in the prefix.
PayloadBytes(m) ==
    IF m.json = "bad" THEN 1
    ELSE IF m.json = "other" THEN 2
    ELSE 2 + m.textLen + (IF m.x.kind = "absent" THEN 0 ELSE 8)

\* ------------------------------------------------------------------------
\* The pipe.
\* ------------------------------------------------------------------------
Word(v, f, p) == [t |-> "word", n |-> PREFIX_BYTES, v |-> v, msg |-> NoMessage,
                  frame |-> f, inPayload |-> p]
Bytes(k, m, f, p) == [t |-> "bytes", n |-> k, v |-> 0, msg |-> m,
                      frame |-> f, inPayload |-> p]
Part(k, f) == [t |-> "part", n |-> k, v |-> 0, msg |-> NoMessage,
               frame |-> f, inPayload |-> FALSE]

\* A well-formed frame: the prefix, then exactly that many bytes.
Frame(m, f) == <<Word(PayloadBytes(m), f, FALSE), Bytes(PayloadBytes(m), m, f, FALSE)>>

\* An oversized frame whose MAX_MESSAGE_BYTES + 1 payload bytes start with a
\* word holding the number of bytes that follow it, and do not decode.
OversizedFrame(f) ==
    <<Word(MAX_MESSAGE_BYTES + 1, f, FALSE),
      Word(MAX_MESSAGE_BYTES + 1 - PREFIX_BYTES, f, TRUE),
      Bytes(MAX_MESSAGE_BYTES + 1 - PREFIX_BYTES, BadJson, f, TRUE)>>

\* An oversized frame whose payload holds the bytes of a click request,
\* framed, and then filler that does not decode.
OversizedClickFrame(f) ==
    LET m == ClickMsg(IntVal(1), IntVal(1))
        fill == MAX_MESSAGE_BYTES + 1 - 2 * PREFIX_BYTES - PayloadBytes(m)
    IN <<Word(MAX_MESSAGE_BYTES + 1, f, FALSE),
         Word(PayloadBytes(m), f, TRUE), Bytes(PayloadBytes(m), m, f, TRUE),
         Word(fill, f, TRUE), Bytes(fill, BadJson, f, TRUE)>>

PeerFrames(f) ==
    { Frame(m, f) : m \in CoreRequests } \cup {OversizedFrame(f), OversizedClickFrame(f)}

AnyFrames(f) ==
    { Frame(m, f) : m \in Requests } \cup {OversizedFrame(f), OversizedClickFrame(f)}

\* What the peer may leave in the pipe when it closes its end: nothing, a
\* cut-off prefix, or a prefix with a cut-off body.
PeerTails(f) ==
    { <<>>, <<Part(1, f)>>, <<Part(3, f)>>,
      <<Word(3, f, FALSE), Bytes(2, BadJson, f, FALSE)>> }

RECURSIVE BytesIn(_)
BytesIn(s) == IF Len(s) = 0 THEN 0 ELSE Head(s).n + BytesIn(Tail(s))

\* ------------------------------------------------------------------------
\* Responses: the object handed to send_message.
\* ------------------------------------------------------------------------
Text(fmt, nums, str) == [fmt |-> fmt, nums |-> nums, str |-> str]
NoText == Text("", <<>>, "")

ErrorResponse(text) ==
    [keys |-> {"status", "message"}, status |-> "error", message |-> text,
     typed |-> 0, action |-> "", x |-> 0, y |-> 0]
\* A response that reports the index of the last character typed.
TypedResponse_LastIndex(k) ==
    [keys |-> {"status", "typed"}, status |-> "ok", message |-> NoText,
     typed |-> IF k > 0 THEN k - 1 ELSE 0, action |-> "", x |-> 0, y |-> 0]

TypedResponse(k) ==
    [keys |-> {"status", "typed"}, status |-> "ok", message |-> NoText,
     typed |-> k, action |-> "", x |-> 0, y |-> 0]
ClickResponse(x, y) ==
    [keys |-> {"status", "action", "x", "y"}, status |-> "ok", message |-> NoText,
     typed |-> 0, action |-> "click", x |-> x, y |-> y]
NoResponse ==
    [keys |-> {}, status |-> "", message |-> NoText,
     typed |-> 0, action |-> "", x |-> 0, y |-> 0]

\* str(e) of the exceptions the loop can see.
TooLargeText == Text("Message exceeds {} byte limit", <<MAX_MESSAGE_BYTES>>, "")
JsonDetail == "Expecting value: line 1 column 1 (char 0)"
InjectorText == Text("{}", <<>>, "injector error")
NotObjectText == Text("{}", <<>>, "'list' object has no attribute 'get'")
IntText == Text("{}", <<>>, "invalid literal for int() with base 10")
DelayText == Text("{}", <<>>, "'>' not supported between instances of 'str' and 'int'")

\* How the process ended: who ended it, the exit code and, for sys.exit in
\* read_message, the read that came up short.
Running == [by |-> "none", code |-> 0, short |-> "none"]
Exited(by, code, short) == [by |-> by, code |-> code, short |-> short]

\* Bookkeeping on the loop iteration in progress: the frame of the peer the
\* length prefix came from and whether the peer sent those bytes as payload,
\* whether a whole body was read and how it decoded, when, and what the
\* iteration has done since.
NoCur == [frame |-> 0, inPayload |-> FALSE, complete |-> FALSE, json |-> "none",
          at |-> 0, updates |-> 0, resp |-> 0, calls |-> 0, raised |-> FALSE,
          admitted |-> FALSE, afterRaise |-> FALSE, afterDenial |-> FALSE,
          args |-> <<>>]
\* Bookkeeping on the last call of the rate limiter: its result, the length
\* of the list before and after, what the history says, and whether any call
\* was denied so far.
NoRl == [calls |-> 0, allowed |-> TRUE, at |-> 0, before |-> 0, after |-> 0,
         strictIn |-> 0, closedIn |-> 0, denied |-> FALSE]

\* The peer's side of stdout: the byte order of the build, the objects and
\* payloads send_message was given and produced, the frames read back, and
\* the length of the frame being read (-1 between frames).
NoCodec == [order |-> "little", objs |-> <<>>, payloads |-> <<>>, got |-> <<>>,
            length |-> -1]

InitHost ==
    /\ now = 0
    /\ stdin = <<>>
    /\ eof = FALSE
    /\ sent = 0
    /\ pc = "read"
    /\ message = NoMessage
    /\ count = 0
    /\ last_activity = 0
    /\ action_timestamps = <<>>
    /\ wd_pc = "sample"
    /\ wd_remaining = IdleTicks
    /\ wd_wake = 0
    /\ exit = Running
    /\ nResp = 0
    /\ lastResp = NoResponse
    /\ cur = NoCur
    /\ admitted = <<>>
    /\ rl = NoRl
    /\ stdout = <<>>

Init ==
    /\ InitHost
    /\ codec = NoCodec


\* ------------------------------------------------------------------------
\* send_message (host.py:69-74): one frame on stdout.  c is the bookkeeping
\* of the iteration before the write.
\* ------------------------------------------------------------------------
send_message(obj, c) ==
    /\ nResp' = nResp + 1
    /\ lastResp' = obj
    /\ cur' = [c EXCEPT !.resp = @ + 1]

\* ------------------------------------------------------------------------
\* read_message (host.py:46-66) on the pipe s: what the call does next.
\*   block        stdin.buffer.read waits for bytes the peer has not sent
\*   exit         sys.exit(code)
\*   ValueError   raised: the size check, or json.loads / decode (both
\*                json.JSONDecodeError and UnicodeDecodeError are ValueErrors)
\*   message      the decoded payload is returned
\* ------------------------------------------------------------------------
Outcome(kind, code, text, msg, rest, prefix, body, json) ==
    [kind |-> kind, code |-> code, text |-> text, msg |-> msg, rest |-> rest,
     prefix |-> prefix, body |-> body, json |-> json]

\* A reader that takes every end of the stream for a clean one.
ExitCode_AlwaysClean(got, wanted) == 0

\* sys.exit(0) on len(raw_length) == 0, sys.exit(1) on a short read
\* (host.py:52-57, 63-65)
ExitCode(got, wanted) == IF wanted = PREFIX_BYTES /\ got = 0 THEN 0 ELSE 1

read_message(s, closed) ==
    LET none == Part(0, 0)
        avail == BytesIn(s)
    IN
    IF avail < PREFIX_BYTES
    THEN IF ~closed
         THEN Outcome("block", 0, NoText, NoMessage, s, none, none, "none")
         ELSE IF avail = 0
              THEN Outcome("exit", ExitCode(avail, PREFIX_BYTES), NoText, NoMessage, s,
                           none, none, "none")
              ELSE Outcome("exit", ExitCode(avail, PREFIX_BYTES), NoText, NoMessage,
                           <<>>, none, none, "none")
    ELSE
    LET raw_length == Head(s)
        message_length == raw_length.v
        after == Tail(s)
    IN
    IF message_length > MAX_MESSAGE_BYTES
    THEN Outcome("ValueError", 0, TooLargeText, NoMessage, after, raw_length, none,
                 "too_large")
    ELSE IF BytesIn(after) < message_length
    THEN IF ~closed
         THEN Outcome("block", 0, NoText, NoMessage, s, none, none, "none")
         ELSE Outcome("exit", ExitCode(BytesIn(after), message_length), NoText,
                      NoMessage, <<>>, raw_length, none, "none")
    ELSE
    LET raw_message == IF message_length = 0 THEN Bytes(0, BadJson, raw_length.frame,
                                                        raw_length.inPayload)
                       ELSE Head(after)
        rest == IF message_length = 0 THEN after ELSE Tail(after)
    IN
    IF raw_message.msg.json = "bad"
    THEN Outcome("ValueError", 0, Text("{}", <<>>, JsonDetail), NoMessage, rest,
                 raw_length, raw_message, "bad")
    ELSE Outcome("message", 0, NoText, raw_message.msg, rest, raw_length, raw_message,
                 "ok")

\* The pipe holds whole tokens where read_message looks for them: a word
\* where it reads a prefix, and after a prefix of n <= MAX_MESSAGE_BYTES
\* either n bytes in one run or, at the end of the stream, fewer.
Aligned(s) ==
    IF Len(s) = 0 THEN TRUE
    ELSE IF Head(s).t = "part" THEN TRUE
    ELSE IF Head(s).t # "word" THEN FALSE
    ELSE IF Head(s).v > MAX_MESSAGE_BYTES \/ Head(s).v = 0 \/ Len(s) = 1 THEN TRUE
    ELSE Head(Tail(s)).t = "bytes"

\* ------------------------------------------------------------------------
\* _check_rate_limit (host.py:116-125) at time t.
\* ------------------------------------------------------------------------
\* A limiter that never forgets an admission.
Expired_Never(t0, t) == FALSE

\* A limiter that keeps the timestamp on the edge of the window.
Expired_OlderOnly(t0, t) == t0 < t - WindowTicks

Expired(t0, t) == t0 <= t - WindowTicks

RECURSIVE Prune(_, _)
Prune(ts, t) ==
    IF Len(ts) > 0 /\ Expired(Head(ts), t) THEN Prune(Tail(ts), t) ELSE ts

\* A limiter that lets one action too many through.
AtLimit_OneTooMany(ts) == Len(ts) > RATE_LIMIT_MAX

AtLimit(ts) == Len(ts) >= RATE_LIMIT_MAX

\* A limiter that records the call before it decides.
_check_rate_limit_RecordsDenied(ts, t) ==
    LET kept == Prune(ts, t)
    IN [allowed |-> ~AtLimit(kept), timestamps |-> Append(kept, t)]

_check_rate_limit(ts, t) ==
    LET kept == Prune(ts, t)
    IN IF AtLimit(kept)
       THEN [allowed |-> FALSE, timestamps |-> kept]
       ELSE [allowed |-> TRUE, timestamps |-> Append(kept, t)]

\* What the history says about a call at time t, whatever the list holds:
\* how many admissions are younger than the window, and how many are not
\* older than it.
StrictlyInWindow(hist, t) == Cardinality({i \in DOMAIN hist : hist[i] > t - WindowTicks})
InClosedWindow(hist, t) == Cardinality({i \in DOMAIN hist : hist[i] >= t - WindowTicks})

RateBookkeeping(r, ts, t) ==
    /\ admitted' = IF r.allowed THEN Append(admitted, t) ELSE admitted
    /\ rl' = [calls |-> rl.calls + 1, allowed |-> r.allowed, at |-> t,
              before |-> Len(ts), after |-> Len(r.timestamps),
              strictIn |-> StrictlyInWindow(admitted, t),
              closedIn |-> InClosedWindow(admitted, t),
              denied |-> rl.denied \/ ~r.allowed]


\* ------------------------------------------------------------------------
\* The dispatcher's decisions (host.py:173-219) on a decoded payload m.
\*   text: "absent" (no key), "null", "nonstr" or "str" (of textLen chars)
\*   delay: "absent" (0.05), "neg", "zero", "pos" or "nonnum"
\*   x, y: absent, an integer, a numeric string, or a value int() rejects
\* ------------------------------------------------------------------------
Message(fmt) == ErrorResponse(Text(fmt, <<>>, ""))

\* A message with the two numbers in each other's place.
RateLimitText_Swapped ==
    Text("Rate limit exceeded ({} actions per {}.0s)", <<RATE_LIMIT_WINDOW, RATE_LIMIT_MAX>>, "")

RateLimitText ==
    Text("Rate limit exceeded ({} actions per {}.0s)", <<RATE_LIMIT_MAX, RATE_LIMIT_WINDOW>>, "")

Coercible(v) == v.kind \in {"int", "numstr"}

\* A coercion that passes numbers through and parses no string.
int_NumbersOnly(v) == IF v.kind = "int" THEN v.val ELSE 0

int(v) == v.val

\* A resolution in which a text key decides before the action field.
resolve_action_TextFirst(m) ==
    IF m.text # "absent" THEN "type"
    ELSE IF m.action # "absent" THEN m.action
    ELSE "absent"

resolve_action(m) ==
    IF m.action # "absent" THEN m.action
    ELSE IF m.text # "absent" THEN "type"
    ELSE "absent"

Decision(do, resp) == [do |-> do, resp |-> resp]

\* A validation without the length limit.
validate_type_NoLimit(m) ==
    IF m.text \in {"absent", "null"} THEN Decision("respond", Message("Missing 'text' field"))
    ELSE IF m.text # "str" THEN Decision("respond", Message("'text' must be a string"))
    ELSE IF m.textLen = 0 THEN Decision("respond", TypedResponse(0))
    ELSE Decision("type_text", NoResponse)

validate_type(m) ==
    IF m.text \in {"absent", "null"} THEN Decision("respond", Message("Missing 'text' field"))
    ELSE IF m.text # "str" THEN Decision("respond", Message("'text' must be a string"))
    ELSE IF m.textLen > MAX_TEXT_LENGTH
    THEN Decision("respond", ErrorResponse(Text("Text too long ({} chars, limit {})",
                                                <<m.textLen, MAX_TEXT_LENGTH>>, "")))
    ELSE IF m.textLen = 0 THEN Decision("respond", TypedResponse(0))
    ELSE Decision("type_text", NoResponse)

validate_click(m) ==
    IF m.x.kind \in {"absent", "null"} \/ m.y.kind \in {"absent", "null"}
    THEN Decision("respond", Message("Missing 'x' or 'y' for click"))
    ELSE IF ~Coercible(m.x) \/ ~Coercible(m.y)
    THEN Decision("raise", ErrorResponse(IntText))
    ELSE Decision("click_at", NoResponse)

validate(m) ==
    IF m.json # "object" THEN Decision("raise", ErrorResponse(NotObjectText))
    ELSE LET action == resolve_action(m) IN
         IF action = "absent" THEN Decision("respond", Message("Missing 'action' field"))
         ELSE IF action = "type" THEN validate_type(m)
         ELSE IF action = "click" THEN validate_click(m)
         ELSE Decision("respond", ErrorResponse(Text("Unknown action: {}", <<>>, action)))

\* ------------------------------------------------------------------------
\* The main thread (host.py:154-226).
\* ------------------------------------------------------------------------
\* except ValueError (host.py:157-160)
except_ValueError(text, c) ==
    /\ send_message(ErrorResponse(text), c)
    /\ pc' = "read"

\* A handler that lets the exception end the process.
except_Exception_Fatal(text, c) ==
    /\ exit' = Exited("main", 1, "none")
    /\ cur' = c
    /\ UNCHANGED <<pc, nResp, lastResp>>

\* except Exception (host.py:224-226)
except_Exception(text, c) ==
    /\ send_message(ErrorResponse(text), c)
    /\ pc' = "read"
    /\ exit' = exit

\* message = read_message() and its handler (host.py:155-160)
ReadMessage ==
    /\ exit = Running
    /\ pc = "read"
    /\ Aligned(stdin)
    /\ LET r == read_message(stdin, eof)
           c == [NoCur EXCEPT !.frame = r.prefix.frame,
                              !.inPayload = r.prefix.inPayload \/ r.body.inPayload,
                              !.complete = r.json \in {"ok", "bad"},
                              !.json = r.json,
                              !.at = now,
                              !.afterRaise = cur.raised,
                              !.afterDenial = (cur.updates = 1 /\ ~cur.admitted)]
       IN /\ r.kind # "block"
          /\ stdin' = r.rest
          /\ CASE r.kind = "exit" ->
                    /\ exit' = Exited("main", r.code,
                                       IF r.prefix.n = 0 THEN "prefix" ELSE "body")
                    /\ UNCHANGED <<pc, message, nResp, lastResp, cur>>
               [] r.kind = "ValueError" ->
                    /\ except_ValueError(r.text, c)
                    /\ UNCHANGED <<exit, message>>
               [] r.kind = "message" ->
                    /\ message' = r.msg
                    /\ pc' = "touch"
                    /\ cur' = c
                    /\ UNCHANGED <<exit, nResp, lastResp>>
    /\ UNCHANGED <<now, eof, sent, count, last_activity, action_timestamps,
                   wd_pc, wd_remaining, wd_wake, admitted, rl,
                   stdout, codec>>

\* last_activity[0] = time.monotonic() (host.py:162)
UpdateActivity ==
    /\ exit = Running
    /\ pc = "touch"
    /\ last_activity' = now
    /\ cur' = [cur EXCEPT !.updates = @ + 1]
    /\ pc' = "dispatch"
    /\ UNCHANGED <<now, stdin, eof, sent, message, count, action_timestamps,
                   wd_pc, wd_remaining, wd_wake, exit, nResp, lastResp, admitted, rl,
                   stdout, codec>>

\* The rate limit, the validation and the call of the injector
\* (host.py:164-201, 205-214, 218-219).
Dispatch ==
    /\ exit = Running
    /\ pc = "dispatch"
    /\ LET r == _check_rate_limit(action_timestamps, now)
           c == [cur EXCEPT !.admitted = r.allowed]
           v == validate(message)
       IN /\ action_timestamps' = r.timestamps
          /\ IF ~r.allowed
             THEN /\ send_message(ErrorResponse(RateLimitText), c)
                  /\ pc' = "read"
                  /\ UNCHANGED <<count, exit>>
             ELSE CASE v.do = "respond" ->
                         /\ send_message(v.resp, c)
                         /\ pc' = "read"
                         /\ UNCHANGED <<count, exit>>
                    [] v.do = "raise" ->
                         /\ except_Exception(v.resp.message, c)
                         /\ UNCHANGED count
                    [] v.do = "type_text" ->
                         /\ pc' = "typing"
                         /\ count' = 0
                         /\ cur' = [c EXCEPT !.calls = @ + 1,
                                             !.args = <<message.textLen>>]
                         /\ UNCHANGED <<nResp, lastResp, exit>>
                    [] v.do = "click_at" ->
                         /\ pc' = "clicking"
                         /\ cur' = [c EXCEPT !.calls = @ + 1,
                                             !.args = <<int(message.x), int(message.y)>>]
                         /\ UNCHANGED <<count, nResp, lastResp, exit>>
    /\ UNCHANGED <<now, stdin, eof, sent, message, last_activity,
                   wd_pc, wd_remaining, wd_wake, admitted, rl,
                   stdout, codec>>

\* Characters the loop of type_text takes in one step: one at a time for the
\* first MaxCharSteps characters, then the rest of the text.
Stride(left, done) == IF done < MaxCharSteps THEN 1 ELSE left

\* for char in text: keyboard.type(char); count += 1; if delay > 0: sleep
\* (host.py:88-96).  The injector may raise; a delay that is no number makes
\* the comparison raise after the first character was typed.
TypeChars ==
    /\ exit = Running
    /\ pc = "typing"
    /\ count < message.textLen
    /\ \E ok \in BOOLEAN :
         IF ~ok
         THEN /\ except_Exception(InjectorText, [cur EXCEPT !.raised = TRUE])
              /\ UNCHANGED count
         ELSE /\ count' = count + Stride(message.textLen - count, count)
              /\ IF message.delay = "nonnum"
                 THEN except_Exception(DelayText, cur)
                 ELSE UNCHANGED <<pc, exit, nResp, lastResp, cur>>
    /\ UNCHANGED <<now, stdin, eof, sent, message, last_activity, action_timestamps,
                   wd_pc, wd_remaining, wd_wake, admitted, rl,
                   stdout, codec>>

\* return count; send_message({"status": "ok", "typed": typed})
\* (host.py:97, 201-203)
TypeReturn ==
    /\ exit = Running
    /\ pc = "typing"
    /\ count = message.textLen
    /\ send_message(TypedResponse(count), cur)
    /\ pc' = "read"
    /\ UNCHANGED <<now, stdin, eof, sent, message, count, last_activity,
                   action_timestamps, wd_pc, wd_remaining, wd_wake, exit, admitted, rl,
                   stdout, codec>>

\* click_at(x, y) and the response (host.py:100-113, 214-216)
ClickAt ==
    /\ exit = Running
    /\ pc = "clicking"
    /\ \E ok \in BOOLEAN :
         IF ~ok
         THEN except_Exception(InjectorText, [cur EXCEPT !.raised = TRUE])
         ELSE /\ send_message(ClickResponse(int(message.x), int(message.y)), cur)
              /\ pc' = "read"
              /\ UNCHANGED exit
    /\ UNCHANGED <<now, stdin, eof, sent, message, count, last_activity,
                   action_timestamps, wd_pc, wd_remaining, wd_wake, admitted, rl,
                   stdout, codec>>

\* ------------------------------------------------------------------------
\* The watchdog thread (host.py:130-137).
\* ------------------------------------------------------------------------
\* elapsed = time.monotonic() - last_activity_ref[0]
\* remaining = IDLE_TIMEOUT_SECONDS - elapsed
\* if remaining <= 0: (the thread is about to exit the process)
\* else: time.sleep(min(remaining, 10))
WatchdogSample ==
    /\ exit = Running
    /\ wd_pc = "sample"
    /\ now >= wd_wake
    /\ LET elapsed == now - last_activity
           remaining == IDLE_TIMEOUT_SECONDS * TicksPerSecond - elapsed
       IN /\ wd_remaining' = remaining
          /\ IF remaining <= 0
             THEN wd_pc' = "expired" /\ wd_wake' = wd_wake
             ELSE wd_pc' = "sample" /\ wd_wake' = now + Min(remaining, PollTicks)
    /\ UNCHANGED <<now, stdin, eof, sent, pc, message, count, last_activity,
                   action_timestamps, exit, nResp, lastResp, cur, admitted, rl,
                   stdout, codec>>

\* log(...); os._exit(0)
WatchdogExit ==
    /\ exit = Running
    /\ wd_pc = "expired"
    /\ exit' = Exited("watchdog", 0, "none")
    /\ UNCHANGED <<now, stdin, eof, sent, pc, message, count, last_activity,
                   action_timestamps, wd_pc, wd_remaining, wd_wake, nResp, lastResp,
                   cur, admitted, rl,
                   stdout, codec>>

\* ------------------------------------------------------------------------
\* The environment: the peer and the clock.
\* ------------------------------------------------------------------------
\* The peer of the full system's runs writes a frame when the host has read
\* everything it sent before.
PeerSend ==
    /\ exit = Running
    /\ ~eof
    /\ sent < MaxFrames
    /\ Len(stdin) = 0
    /\ \E f \in PeerFrames(sent + 1) : stdin' = stdin \o f
    /\ sent' = sent + 1
    /\ UNCHANGED <<now, eof, pc, message, count, last_activity, action_timestamps,
                   wd_pc, wd_remaining, wd_wake, exit, nResp, lastResp, cur, admitted, rl,
                   stdout, codec>>

\* The peer of the main loop's runs writes frames whenever it likes.
PeerSendAny ==
    /\ exit = Running
    /\ ~eof
    /\ sent < MaxLoopFrames
    /\ \E f \in AnyFrames(sent + 1) : stdin' = stdin \o f
    /\ sent' = sent + 1
    /\ UNCHANGED <<now, eof, pc, message, count, last_activity, action_timestamps,
                   wd_pc, wd_remaining, wd_wake, exit, nResp, lastResp, cur, admitted, rl,
                   stdout, codec>>

PeerClose ==
    /\ exit = Running
    /\ ~eof
    /\ \E tail \in PeerTails(sent + 1) : stdin' = stdin \o tail
    /\ eof' = TRUE
    /\ UNCHANGED <<now, sent, pc, message, count, last_activity, action_timestamps,
                   wd_pc, wd_remaining, wd_wake, exit, nResp, lastResp, cur, admitted, rl,
                   stdout, codec>>

\* Ticks type_text sleeps in all for the request m: delay seconds after each
\* character when delay > 0 (host.py:95-96), delay being 0.05 when the
\* request names none (host.py:200).
SleepTicks(m) ==
    IF m.delay = "absent"
    THEN (m.textLen * DEFAULT_DELAY_MS * TicksPerSecond) \div 1000
    ELSE 0

\* The clock advances while the main thread waits for the peer, and while
\* type_text sleeps between characters; the other statements of the loop
\* take no time at this resolution.
Tick ==
    /\ exit = Running
    /\ pc \in {"read", "typing"}
    /\ \E t \in Instants :
         /\ t > now
         /\ pc = "typing" => t <= cur.at + SleepTicks(message)
         /\ now' = t
    /\ UNCHANGED <<stdin, eof, sent, pc, message, count, last_activity,
                   action_timestamps, wd_pc, wd_remaining, wd_wake, exit, nResp,
                   lastResp, cur, admitted, rl,
                   stdout, codec>>

Next ==
    \/ PeerSend
    \/ PeerClose
    \/ Tick
    \/ ReadMessage
    \/ UpdateActivity
    \/ Dispatch
    \/ TypeChars
    \/ TypeReturn
    \/ ClickAt
    \/ WatchdogSample
    \/ WatchdogExit

Spec == Init /\ [][Next]_vars

\* The rate limiter alone: calls of _check_rate_limit at the times of a clock
\* that never runs backwards.
RateCall ==
    /\ rl.calls < MaxCalls
    /\ LET r == _check_rate_limit(action_timestamps, now)
       IN /\ action_timestamps' = r.timestamps
          /\ RateBookkeeping(r, action_timestamps, now)
    /\ UNCHANGED <<now, stdin, eof, sent, pc, message, count, last_activity,
                   wd_pc, wd_remaining, wd_wake, exit, nResp, lastResp, cur,
                   stdout, codec>>

RateTick ==
    /\ now < MaxRateTicks
    /\ now' = now + 1
    /\ UNCHANGED <<stdin, eof, sent, pc, message, count, last_activity,
                   action_timestamps, wd_pc, wd_remaining, wd_wake, exit, nResp,
                   lastResp, cur, admitted, rl,
                   stdout, codec>>

NextRate ==
    \/ RateCall
    \/ RateTick

SpecRate == Init /\ [][NextRate]_vars

\* The main loop alone, on every request of Requests, the clock standing still.
NextLoop ==
    \/ PeerSendAny
    \/ PeerClose
    \/ ReadMessage
    \/ UpdateActivity
    \/ Dispatch
    \/ TypeChars
    \/ TypeReturn
    \/ ClickAt

SpecLoop == Init /\ [][NextLoop]_vars

\* The main loop under a burst: a peer that writes a frame as soon as the
\* last one was answered, more frames than the limiter admits in one window.
BurstRequests ==
    { ClickMsg(IntVal(500), IntVal(300)),
      TypeMsg("type", 1, "zero"),
      TypeMsg("type", 0, "absent"),
      Msg("object", "absent", "absent", 0, "absent", Absent, Absent),
      BadJson }

\* An oversized frame draws two responses, any other frame one: the surplus
\* of responses counts the oversized frames the burst held so far.
BurstFrames(f) ==
    { Frame(m, f) : m \in BurstRequests } \cup
    (IF nResp - sent < MaxBurstOversized THEN {OversizedFrame(f)} ELSE {})

PeerSendBurst ==
    /\ exit = Running
    /\ pc = "read"
    /\ sent < MaxBurstFrames
    /\ Len(stdin) = 0
    /\ \E f \in BurstFrames(sent + 1) : stdin' = stdin \o f
    /\ sent' = sent + 1
    /\ UNCHANGED <<now, eof, pc, message, count, last_activity, action_timestamps,
                   wd_pc, wd_remaining, wd_wake, exit, nResp, lastResp, cur, admitted, rl,
                   stdout, codec>>

\* The peer pauses for the length of a window.
BurstPause ==
    /\ exit = Running
    /\ pc = "read"
    /\ Len(stdin) = 0
    /\ now < MaxBurstPauses * WindowTicks
    /\ now' = now + WindowTicks
    /\ UNCHANGED <<stdin, eof, sent, pc, message, count, last_activity,
                   action_timestamps, wd_pc, wd_remaining, wd_wake, exit, nResp,
                   lastResp, cur, admitted, rl,
                   stdout, codec>>

NextBurst ==
    \/ PeerSendBurst
    \/ BurstPause
    \/ ReadMessage
    \/ UpdateActivity
    \/ Dispatch
    \/ TypeChars
    \/ TypeReturn
    \/ ClickAt

SpecBurst == Init /\ [][NextBurst]_vars

\* ------------------------------------------------------------------------
\* The frame codec on bytes: send_message (host.py:69-74) and the framing of
\* read_message (host.py:51-62), as the peer applies it to stdout.  A string
\* is a sequence of code points, a payload a sequence of bytes.
\* ------------------------------------------------------------------------
Str(cps) == [t |-> "str", s |-> cps, n |-> 0]
Num(n) == [t |-> "int", s |-> <<>>, n |-> n]

K_status == <<115, 116, 97, 116, 117, 115>>
K_message == <<109, 101, 115, 115, 97, 103, 101>>
K_typed == <<116, 121, 112, 101, 100>>
K_action == <<97, 99, 116, 105, 111, 110>>
K_x == <<120>>
K_y == <<121>>
S_error == <<101, 114, 114, 111, 114>>
S_ok == <<111, 107>>
S_click == <<99, 108, 105, 99, 107>>

\* The objects main() hands to send_message, keys in insertion order.
ErrorObj(text) == << <<K_status, Str(S_error)>>, <<K_message, Str(text)>> >>
TypedObj(k) == << <<K_status, Str(S_ok)>>, <<K_typed, Num(k)>> >>
ClickObj(x, y) ==
    << <<K_status, Str(S_ok)>>, <<K_action, Str(S_click)>>, <<K_x, Num(x)>>, <<K_y, Num(y)>> >>

LongText == [i \in 1 .. LongTextLen |-> 97]

\* Message texts: plain, with characters JSON escapes, with a character
\* outside ASCII, and one longer than a byte can count.
CodecTexts ==
    { <<>>, <<97>>, <<34>>, <<92>>, <<10>>, <<233>>, <<97, 233, 34>>, LongText }

CodecObjects ==
    { ErrorObj(t) : t \in CodecTexts } \cup
    { TypedObj(k) : k \in {0, 1, MAX_TEXT_LENGTH} } \cup
    { ClickObj(500, 300), ClickObj(-5, 0) }

\* json.dumps(message_obj, separators=(",", ":")) with ensure_ascii
\* (host.py:71): the characters of the JSON text.
Hex(h) == IF h < 10 THEN 48 + h ELSE 87 + h
Escape(c) ==
    IF c = 34 THEN <<92, 34>>
    ELSE IF c = 92 THEN <<92, 92>>
    ELSE IF c = 10 THEN <<92, 110>>
    ELSE IF c < 32 \/ c > 126
    THEN <<92, 117, Hex((c \div 4096) % 16), Hex((c \div 256) % 16),
           Hex((c \div 16) % 16), Hex(c % 16)>>
    ELSE <<c>>

\* Each character in turn, the sequence taken by halves.
RECURSIVE EscapeAll(_)
EscapeAll(cps) ==
    IF Len(cps) = 0 THEN <<>>
    ELSE IF Len(cps) = 1 THEN Escape(cps[1])
    ELSE LET mid == Len(cps) \div 2
         IN EscapeAll(SubSeq(cps, 1, mid)) \o EscapeAll(SubSeq(cps, mid + 1, Len(cps)))

Quoted(cps) == <<34>> \o EscapeAll(cps) \o <<34>>

RECURSIVE Digits(_)
Digits(n) == IF n < 10 THEN <<48 + n>> ELSE Digits(n \div 10) \o <<48 + (n % 10)>>

Number(n) == IF n < 0 THEN <<45>> \o Digits(-n) ELSE Digits(n)

Value(v) == IF v.t = "str" THEN Quoted(v.s) ELSE Number(v.n)

RECURSIVE Members(_)
Members(obj) ==
    IF Len(obj) = 0 THEN <<>>
    ELSE Quoted(Head(obj)[1]) \o <<58>> \o Value(Head(obj)[2])
         \o (IF Len(obj) > 1 THEN <<44>> ELSE <<>>) \o Members(Tail(obj))

dumps(obj) == <<123>> \o Members(obj) \o <<125>>

\* str.encode("utf-8") (host.py:71), for code points below 0x800
RECURSIVE encode(_)
encode(cps) ==
    IF Len(cps) = 0 THEN <<>>
    ELSE IF Len(cps) = 1
    THEN (IF cps[1] < 128 THEN <<cps[1]>>
          ELSE <<192 + (cps[1] \div 64), 128 + (cps[1] % 64)>>)
    ELSE LET mid == Len(cps) \div 2
         IN encode(SubSeq(cps, 1, mid)) \o encode(SubSeq(cps, mid + 1, Len(cps)))

\* A packing in network byte order whatever the build.
pack_Network(order, n) ==
    <<(n \div 16777216) % 256, (n \div 65536) % 256, (n \div 256) % 256, n % 256>>

\* struct.pack("@I", n) (host.py:72): four bytes in the byte order of the build
pack(order, n) ==
    LET b == [k \in 0 .. 3 |-> (n \div (256 ^ k)) % 256]
    IN IF order = "little" THEN <<b[0], b[1], b[2], b[3]>> ELSE <<b[3], b[2], b[1], b[0]>>

\* struct.unpack("@I", raw_length)[0] (host.py:58)
unpack(order, raw) ==
    IF order = "little"
    THEN raw[1] + 256 * raw[2] + 65536 * raw[3] + 16777216 * raw[4]
    ELSE raw[4] + 256 * raw[3] + 65536 * raw[2] + 16777216 * raw[1]

\* The build fixes the byte order.
InitCodec ==
    /\ InitHost
    /\ \E o \in {"little", "big"} : codec = [NoCodec EXCEPT !.order = o]

\* send_message(obj) (host.py:71-74)
CodecSend ==
    /\ Len(codec.objs) < MaxCodecFrames
    /\ \E obj \in CodecObjects :
         LET encoded == encode(dumps(obj))
         IN /\ stdout' = stdout \o pack(codec.order, Len(encoded)) \o encoded
            /\ codec' = [codec EXCEPT !.objs = Append(@, obj),
                                      !.payloads = Append(@, encoded)]
    /\ UNCHANGED <<now, stdin, eof, sent, pc, message, count, last_activity,
                   action_timestamps, wd_pc, wd_remaining, wd_wake, exit, nResp,
                   lastResp, cur, admitted, rl>>

\* raw_length = read(4); message_length = unpack(raw_length); the size check
\* (host.py:51-61)
CodecReadLength ==
    /\ codec.length = -1
    /\ Len(stdout) >= PREFIX_BYTES
    /\ LET raw_length == SubSeq(stdout, 1, PREFIX_BYTES)
           message_length == unpack(codec.order, raw_length)
       IN /\ stdout' = SubSeq(stdout, PREFIX_BYTES + 1, Len(stdout))
          /\ IF message_length > MAX_MESSAGE_BYTES
             THEN codec' = [codec EXCEPT !.got = Append(@, [length |-> message_length,
                                                            body |-> <<>>,
                                                            error |-> TRUE])]
             ELSE codec' = [codec EXCEPT !.length = message_length]
    /\ UNCHANGED <<now, stdin, eof, sent, pc, message, count, last_activity,
                   action_timestamps, wd_pc, wd_remaining, wd_wake, exit, nResp,
                   lastResp, cur, admitted, rl>>

\* raw_message = read(message_length) (host.py:62), once the bytes are there
CodecReadBody ==
    /\ codec.length >= 0
    /\ Len(stdout) >= codec.length
    /\ stdout' = SubSeq(stdout, codec.length + 1, Len(stdout))
    /\ codec' = [codec EXCEPT !.got = Append(@, [length |-> codec.length,
                                                 body |-> SubSeq(stdout, 1, codec.length),
                                                 error |-> FALSE]),
                              !.length = -1]
    /\ UNCHANGED <<now, stdin, eof, sent, pc, message, count, last_activity,
                   action_timestamps, wd_pc, wd_remaining, wd_wake, exit, nResp,
                   lastResp, cur, admitted, rl>>

NextCodec ==
    \/ CodecSend
    \/ CodecReadLength
    \/ CodecReadBody

SpecCodec == InitCodec /\ [][NextCodec]_vars

\* ------------------------------------------------------------------------
\* Properties.
\* ------------------------------------------------------------------------
\* Frames of the peer the main loop has answered in full.
Answered == IF pc = "read" THEN cur.frame ELSE cur.frame - 1

\* C1: while the host runs, it has sent exactly one response for every frame
\* of the peer it has consumed, in the order of the frames: the number of
\* responses equals the number of the last frame answered.
C1_OneResponsePerFrame == exit = Running => nResp = Answered

\* C2: a frame whose prefix exceeds MAX_MESSAGE_BYTES gets one error response
\* and the stream stays in step: no byte of a payload is ever taken for a
\* length prefix or for a body of another frame.
C2_OversizedFrameKeepsFraming ==
    /\ cur.json = "too_large" => (cur.resp = 1 /\ lastResp = ErrorResponse(TooLargeText))
    /\ ~cur.inPayload

\* C3: the watchdog never ends the process while type_text is running.
C3_NoExitWhileTyping == ~(exit.by = "watchdog" /\ pc = "typing")

\* C4: once a frame was read in full (length and payload), whether its JSON
\* decoded or not, the activity timestamp has been updated exactly once for
\* it by the time the loop is past the update.
C4_ActivityUpdatedOncePerFrame ==
    (cur.complete /\ pc # "touch") => cur.updates = 1

\* C5: every frame read in full restarts the idle countdown: once the loop
\* is past the update, the activity timestamp is the time the frame was read,
\* so the deadline is IDLE_TIMEOUT_SECONDS after that frame.
C5_FrameRestartsCountdown ==
    (cur.complete /\ pc # "touch") => last_activity = cur.at

\* C6: a call of the rate limiter is denied when RATE_LIMIT_MAX admissions
\* are younger than the window, and admitted when fewer than RATE_LIMIT_MAX
\* admissions are at most as old as the window.
C6_SlidingWindowAdmission ==
    rl.calls > 0 =>
        /\ rl.strictIn >= RATE_LIMIT_MAX => ~rl.allowed
        /\ rl.closedIn < RATE_LIMIT_MAX => rl.allowed

\* After RATE_LIMIT_MAX admissions and a denial, the earliest admission has
\* slid out and a call is admitted with the other RATE_LIMIT_MAX - 1 still
\* young.
C6_DeniedThenAdmitted ==
    /\ rl.denied
    /\ rl.allowed
    /\ rl.strictIn = RATE_LIMIT_MAX - 1
    /\ rl.before = RATE_LIMIT_MAX
    /\ Len(action_timestamps) = RATE_LIMIT_MAX

\* C7: a read at the end of the stream ends the process: with exit code 0
\* when no byte is left, with exit code 1 when 1 to 3 bytes are left or when
\* the payload is shorter than its prefix says; no response is sent and no
\* injector is called.
C7_ExitOnStreamEnd ==
    [][ReadMessage =>
          LET n == BytesIn(stdin)
              quiet == /\ nResp' = nResp
                       /\ lastResp' = lastResp
                       /\ cur'.calls = cur.calls
                       /\ pc' = "read"
          IN /\ (eof /\ n = 0) => (exit' = Exited("main", 0, "prefix") /\ quiet)
             /\ (eof /\ n \in 1 .. (PREFIX_BYTES - 1)) =>
                    (exit' = Exited("main", 1, "prefix") /\ quiet)
             /\ (eof /\ n >= PREFIX_BYTES /\ Head(stdin).v <= MAX_MESSAGE_BYTES
                     /\ n - PREFIX_BYTES < Head(stdin).v) =>
                    (exit' = Exited("main", 1, "body") /\ quiet)
             /\ exit' # Running => eof]_vars

\* The stream ended inside a payload after a frame was answered.
C7_TruncatedPayloadExit ==
    /\ exit = Exited("main", 1, "body")
    /\ nResp = 1
    /\ cur.resp = 1

\* C8: a frame whose payload is not valid JSON gets exactly one failure
\* response, whose message is "Invalid JSON: " and the decoder's detail; no
\* injector is called for it.
C8_MalformedJsonReported ==
    cur.json = "bad" =>
        /\ cur.resp = 1
        /\ cur.calls = 0
        /\ lastResp = ErrorResponse(Text("Invalid JSON: {}", <<>>, JsonDetail))

\* C9: when a call of the injector fails, the host sends exactly one failure
\* response for the request, keeps running, and is back at the read with the
\* pipe, the rate limiter and the activity timestamp as they were.
C9_InjectorFailureRecoverable ==
    [][(~cur.raised /\ cur'.raised) =>
          /\ nResp' = nResp + 1
          /\ cur'.resp = 1
          /\ lastResp' = ErrorResponse(InjectorText)
          /\ exit' = Running
          /\ pc' = "read"
          /\ stdin' = stdin
          /\ action_timestamps' = action_timestamps
          /\ last_activity' = last_activity]_vars

\* The frame after a failed injector call was typed and answered.
C9_NextFrameHandled ==
    /\ cur.afterRaise
    /\ pc = "read"
    /\ cur.calls = 1
    /\ lastResp.status = "ok"
    /\ nResp = 2

\* C10: a typing request with a negative delay is answered with a failure
\* and type_text is not called for it.
C10_NegativeDelayRejected ==
    (cur.admitted /\ message.json = "object" /\ resolve_action(message) = "type"
        /\ message.text = "str" /\ message.textLen \in 1 .. MAX_TEXT_LENGTH
        /\ message.delay = "neg") =>
        /\ cur.calls = 0
        /\ pc = "read" => lastResp.status = "error"

\* A decoded object the limiter admitted, asking for typing in the explicit
\* or in the legacy form, with a string for text.
AdmittedTypeRequest ==
    /\ cur.admitted
    /\ message.json = "object"
    /\ message.action = "type" \/ (message.action = "absent" /\ message.text # "absent")
    /\ message.text = "str"

\* C12: an admitted type request whose text is a string of more than
\* MAX_TEXT_LENGTH characters is answered with one failure that cites the
\* length of the text and the limit, and type_text is not called.
C12_OverlongTextRejected ==
    (AdmittedTypeRequest /\ message.textLen > MAX_TEXT_LENGTH) =>
        /\ pc = "read"
        /\ cur.calls = 0
        /\ cur.resp = 1
        /\ lastResp.keys = {"status", "message"}
        /\ lastResp.status = "error"
        /\ lastResp.message = Text("Text too long ({} chars, limit {})",
                                   <<message.textLen, MAX_TEXT_LENGTH>>, "")

\* A text one character over the limit was refused.
C12_OverlongRefused ==
    /\ AdmittedTypeRequest
    /\ message.textLen = MAX_TEXT_LENGTH + 1
    /\ pc = "read"
    /\ cur.calls = 0
    /\ lastResp.message.nums = <<MAX_TEXT_LENGTH + 1, MAX_TEXT_LENGTH>>

\* type_text raised: the injector failed, or the delay was no number and the
\* comparison after the first character failed.
TypeTextRaised == cur.raised \/ (message.delay = "nonnum" /\ message.textLen > 0)

\* C13: for an admitted type request with a string of n characters,
\* 0 <= n <= MAX_TEXT_LENGTH, during which type_text does not raise, type_text
\* is called once with the text when n > 0 and not at all when n = 0, and the
\* one response is {status: ok, typed: n}.
C13_TypedEqualsLength ==
    (AdmittedTypeRequest /\ message.textLen <= MAX_TEXT_LENGTH /\ ~TypeTextRaised) =>
        /\ pc \in {"typing", "read"}
        /\ cur.calls = IF message.textLen > 0 THEN 1 ELSE 0
        /\ cur.calls = 1 => cur.args = <<message.textLen>>
        /\ pc = "typing" => (cur.resp = 0 /\ count <= message.textLen)
        /\ pc = "read" =>
              /\ cur.resp = 1
              /\ lastResp.keys = {"status", "typed"}
              /\ lastResp.status = "ok"
              /\ lastResp.typed = message.textLen

\* A text of exactly MAX_TEXT_LENGTH characters was typed and answered.
C13_LongestTextTyped ==
    /\ AdmittedTypeRequest
    /\ message.textLen = MAX_TEXT_LENGTH
    /\ pc = "read"
    /\ cur.calls = 1
    /\ lastResp.typed = MAX_TEXT_LENGTH

\* The handler that took the request, read off the injector call or, when
\* there was none, off the response.
HandledAsType ==
    IF cur.calls = 1 THEN Len(cur.args) = 1
    ELSE /\ pc = "read"
         /\ \/ lastResp.keys = {"status", "typed"}
            \/ lastResp.message.fmt \in {"Missing 'text' field", "'text' must be a string",
                                        "Text too long ({} chars, limit {})"}
HandledAsClick ==
    IF cur.calls = 1 THEN Len(cur.args) = 2
    ELSE /\ pc = "read"
         /\ lastResp.status = "error"
         /\ lastResp.message \in {Text("Missing 'x' or 'y' for click", <<>>, ""), IntText}

\* C14: for an admitted request, an action field decides the handler even
\* when a text key is present; without an action field a text key means
\* typing; without either the response is the missing-action failure; any
\* other action value is answered with a failure naming it; the two failures
\* call no injector.
C14_ActionResolution ==
    (cur.admitted /\ message.json = "object") =>
        /\ message.action = "type" => HandledAsType
        /\ message.action = "click" => HandledAsClick
        /\ (message.action = "absent" /\ message.text # "absent") => HandledAsType
        /\ (message.action = "absent" /\ message.text = "absent") =>
              /\ pc = "read"
              /\ cur.calls = 0
              /\ lastResp.status = "error"
              /\ lastResp.message = Text("Missing 'action' field", <<>>, "")
        /\ message.action \notin {"absent", "type", "click"} =>
              /\ pc = "read"
              /\ cur.calls = 0
              /\ lastResp.status = "error"
              /\ lastResp.message = Text("Unknown action: {}", <<>>, message.action)

\* A request with action click and a text key was clicked, not typed.
C14_ExplicitClickWithText ==
    /\ cur.admitted
    /\ message.action = "click"
    /\ message.text = "str"
    /\ pc = "read"
    /\ cur.calls = 1
    /\ lastResp.action = "click"

\* C15: for an admitted click request, when x and y are present and int()
\* accepts them, click_at is called once with the integers and, unless it
\* raises, the one response is {status: ok, action: click, x, y} with those
\* integers; otherwise the response is a failure and click_at is not called.
C15_ClickDispatch ==
    (cur.admitted /\ message.json = "object" /\ message.action = "click") =>
        IF message.x.kind \in {"int", "numstr"} /\ message.y.kind \in {"int", "numstr"}
        THEN /\ pc \in {"clicking", "read"}
             /\ cur.calls = 1
             /\ cur.args = <<message.x.val, message.y.val>>
             /\ (pc = "read" /\ ~cur.raised) =>
                   /\ cur.resp = 1
                   /\ lastResp.keys = {"status", "action", "x", "y"}
                   /\ lastResp.status = "ok"
                   /\ lastResp.action = "click"
                   /\ lastResp.x = message.x.val
                   /\ lastResp.y = message.y.val
        ELSE /\ pc = "read"
             /\ cur.calls = 0
             /\ cur.resp = 1
             /\ lastResp.status = "error"

\* A click whose x came as a numeric string was made at the parsed integer.
C15_NumericStringClicked ==
    /\ cur.admitted
    /\ message.action = "click"
    /\ message.x.kind = "numstr"
    /\ pc = "read"
    /\ cur.args = <<message.x.val, message.y.val>>
    /\ lastResp.action = "click"
    /\ lastResp.x = message.x.val

\* C11: when the limiter denies a decoded request, the loop sends exactly one
\* failure response that cites RATE_LIMIT_MAX and RATE_LIMIT_WINDOW, calls no
\* injector, leaves the pipe as it is (the request is not put back) and is
\* back at the read, still running.
C11_DenialIsPerRequest ==
    [][(Dispatch /\ ~cur'.admitted) =>
          /\ nResp' = nResp + 1
          /\ cur'.resp = 1
          /\ lastResp'.keys = {"status", "message"}
          /\ lastResp'.status = "error"
          /\ lastResp'.message = Text("Rate limit exceeded ({} actions per {}.0s)",
                                      <<RATE_LIMIT_MAX, RATE_LIMIT_WINDOW>>, "")
          /\ cur'.calls = 0
          /\ pc' = "read"
          /\ exit' = Running
          /\ stdin' = stdin
          /\ message' = message]_vars

\* The frame after a denied one was admitted and its injector call answered.
C11_NextFrameAfterDenial ==
    /\ cur.afterDenial
    /\ cur.admitted
    /\ cur.calls = 1
    /\ pc = "read"
    /\ lastResp.status = "ok"

\* Entries of the list ts that carry the present time.
AtNow(ts) == Cardinality({i \in DOMAIN ts : ts[i] = now})

\* C20: the step that passes an admitted request on, whatever becomes of the
\* request afterwards, appends exactly one timestamp; the step that denies a
\* request appends none; no other step changes the list, and a frame refused
\* as oversized or as malformed JSON never gets as far as the limiter.
C20_WhatTakesASlot ==
    [][/\ (Dispatch /\ cur'.admitted) =>
              AtNow(action_timestamps') = AtNow(action_timestamps) + 1
       /\ (Dispatch /\ ~cur'.admitted) =>
              /\ AtNow(action_timestamps') = AtNow(action_timestamps)
              /\ Len(action_timestamps') <= Len(action_timestamps)
       /\ ~Dispatch => action_timestamps' = action_timestamps
       /\ cur'.json \in {"too_large", "bad"} => (pc' = "read" /\ ~cur'.admitted)]_vars

\* The last free slot of the window went to a request without an action.
C20_SlotTakenByInvalidRequest ==
    /\ cur.admitted
    /\ pc = "read"
    /\ cur.calls = 0
    /\ lastResp.message = Text("Missing 'action' field", <<>>, "")
    /\ Len(action_timestamps) = RATE_LIMIT_MAX

\* C17: at the moment the watchdog ends the process, IDLE_TIMEOUT_SECONDS or
\* more have passed since the main loop last recorded a frame.
C17_ExitOnlyWhenIdle ==
    exit.by = "watchdog" => now - last_activity >= IdleTicks

IsSorted(ts) == \A i, j \in DOMAIN ts : i <= j => ts[i] <= ts[j]
IsSuffix(a, b) == Len(a) <= Len(b) /\ a = SubSeq(b, Len(b) - Len(a) + 1, Len(b))

\* C18: after any calls of the limiter at non-decreasing times, the list is
\* in non-decreasing order, holds at most RATE_LIMIT_MAX entries, holds only
\* timestamps of calls that were allowed (it is the tail of their history)
\* and none older than the window of the latest call; and a denied call
\* appends nothing: the list after it is a tail of the list before it.
C18_LimiterListInvariant ==
    /\ [](/\ IsSorted(action_timestamps)
          /\ Len(action_timestamps) <= RATE_LIMIT_MAX
          /\ IsSuffix(action_timestamps, admitted)
          /\ \A i \in DOMAIN action_timestamps :
                /\ action_timestamps[i] <= rl.at
                /\ action_timestamps[i] >= rl.at - WindowTicks)
    /\ [][(RateCall /\ ~rl'.allowed) =>
             IsSuffix(action_timestamps', action_timestamps)]_vars

\* A call was denied with the list full of earlier admissions, some of them
\* made before the time of the call.
C18_DeniedOnFullList ==
    /\ rl.calls > 0
    /\ ~rl.allowed
    /\ Len(action_timestamps) = RATE_LIMIT_MAX
    /\ action_timestamps[1] < rl.at
    /\ action_timestamps[RATE_LIMIT_MAX] = rl.at

\* Entries the last call of the limiter found worth keeping.
Kept == rl.after - (IF rl.allowed THEN 1 ELSE 0)

\* C19 as stated: a call keeps the admissions that are not older than the
\* window, the one exactly a window old included, and denies when
\* RATE_LIMIT_MAX of those exist.
C19_EdgeOfWindowKept ==
    rl.calls > 0 =>
        /\ Kept = rl.closedIn
        /\ rl.closedIn >= RATE_LIMIT_MAX => ~rl.allowed

\* C19 as amended: a call keeps exactly the admissions younger than the
\* window (t > now - window); one exactly a window old is discarded and no
\* longer counts, so a call is allowed whenever fewer than RATE_LIMIT_MAX
\* admissions are younger than the window.
C19_EdgeOfWindowDiscarded ==
    rl.calls > 0 =>
        /\ Kept = rl.strictIn
        /\ rl.strictIn < RATE_LIMIT_MAX <=> rl.allowed

\* RATE_LIMIT_MAX admissions at one time, and the call exactly a window
\* later was allowed.
C19_AllowedAtTheEdge ==
    /\ rl.allowed
    /\ rl.before = RATE_LIMIT_MAX
    /\ rl.closedIn = RATE_LIMIT_MAX
    /\ rl.strictIn = 0
    /\ action_timestamps = <<rl.at>>

\* Bytes of the frames k, k + 1, ... of payloads, prefixes included.
RECURSIVE FramedBytes(_, _)
FramedBytes(payloads, k) ==
    IF k > Len(payloads) THEN 0
    ELSE PREFIX_BYTES + Len(payloads[k]) + FramedBytes(payloads, k + 1)

\* C16: every frame send_message writes is PREFIX_BYTES bytes of length and
\* then exactly that many bytes: what lies on stdout between two frames is
\* the frames not yet read, each of the length of its payload plus the
\* prefix, and every frame read back by prefix and count gives the length of
\* the payload written and, byte for byte, that payload.
C16_FrameRoundTrip ==
    /\ \A k \in DOMAIN codec.got :
          /\ ~codec.got[k].error
          /\ codec.got[k].length = Len(codec.payloads[k])
          /\ codec.got[k].body = codec.payloads[k]
    /\ codec.length = -1 =>
          Len(stdout) = FramedBytes(codec.payloads, Len(codec.got) + 1)

\* Two frames were read back on a big-endian build: an error whose long
\* message needs two bytes of the prefix, then {"status":"ok","typed":0}.
C16_TwoFramesReadBack ==
    /\ codec.order = "big"
    /\ Len(codec.got) = 2
    /\ Len(stdout) = 0
    /\ codec.objs[1] = ErrorObj(LongText)
    /\ codec.got[1].length > 255
    /\ codec.got[2].body = <<123, 34, 115, 116, 97, 116, 117, 115, 34, 58, 34, 111, 107, 34, 44,
                             34, 116, 121, 112, 101, 100, 34, 58, 48, 125>>

====
